---- MODULE Spec2Model ----
(***************************************************************************)
(* vite-plugin-validate-json: the buildStart hook (index.ts), the key      *)
(* validation orchestrator (validate-keys.ts) and the extraction and       *)
(* reconciliation helpers (utils.ts).                                      *)
(*                                                                         *)
(* Strings are sequences of one-character strings, so that splitting,      *)
(* joining and regex scanning are computed and not assumed.  A thrown      *)
(* error is a record [threw |-> TRUE, message |-> m].                      *)
(***************************************************************************)
EXTENDS Integers, Sequences, FiniteSets, TLC

\* ------------------------------------------------------------------ bounds
\* most JSON files the paths globs match in one build
MaxJsonFiles == 3
\* longest source text given to extractKeysFromSource on its own
MaxTextLen == 5
\* longest key given to normalizeKey on its own
MaxKeyLen == 3

\* ----------------------------------------------------------- string helpers
RECURSIVE Concat(_)
Concat(ss) ==
  IF ss = <<>> THEN <<>> ELSE Head(ss) \o Concat(Tail(ss))

\* s starts with t at position i (1-based)
StartsAt(s, t, i) ==
  /\ i + Len(t) - 1 <= Len(s)
  /\ \A k \in 1..Len(t) : s[i + k - 1] = t[k]

\* String.prototype.split with a string separator
RECURSIVE SplitFrom(_, _, _, _)
SplitFrom(s, sep, i, cur) ==
  IF sep = <<>>
    THEN [k \in 1..Len(s) |-> <<s[k]>>]
    ELSE IF i > Len(s) THEN <<cur>>
    ELSE IF StartsAt(s, sep, i)
      THEN <<cur>> \o SplitFrom(s, sep, i + Len(sep), <<>>)
      ELSE SplitFrom(s, sep, i + 1, Append(cur, s[i]))

split(s, sep) == SplitFrom(s, sep, 1, <<>>)

\* Array.prototype.join
RECURSIVE join(_, _)
join(parts, sep) ==
  IF parts = <<>> THEN <<>>
  ELSE IF Len(parts) = 1 THEN parts[1]
  ELSE parts[1] \o sep \o join(Tail(parts), sep)

\* Set.prototype.add on an insertion-ordered set, kept as a duplicate-free sequence
SetAdd(seq, x) ==
  IF \E i \in 1..Len(seq) : seq[i] = x THEN seq ELSE Append(seq, x)

Range(seq) == {seq[i] : i \in 1..Len(seq)}

\* ------------------------------------------------------------ key normalizer
\* normalizeKey replacing the first separator only, as String.prototype.replace
\* does with a string pattern
normalizeKey_FirstOnly(key, currentSeparator, targetSeparator) ==
  IF currentSeparator = targetSeparator
    THEN key
    ELSE LET parts == split(key, currentSeparator)
         IN IF Len(parts) <= 1 THEN key
            ELSE parts[1] \o targetSeparator \o join(Tail(parts), currentSeparator)

\* normalizeKey with the two separators taken the wrong way round
normalizeKey_Swapped(key, currentSeparator, targetSeparator) ==
  IF currentSeparator = targetSeparator
    THEN key
    ELSE join(split(key, targetSeparator), currentSeparator)

normalizeKey(key, currentSeparator, targetSeparator) ==
  IF currentSeparator = targetSeparator
    THEN key
    ELSE join(split(key, currentSeparator), targetSeparator)

\* ------------------------------------------------------------- JSON flattener
\* Parsed JSON values live in a heap of objects with identity.  A value is Prim
\* (string, number, boolean, null) or the id of an object or array; entries are
\* Object.entries(obj) in order, an array's keys being its indices.
Prim == 0

Heap ==
  [o \in 1..28 |->
     CASE o = 1 -> [isArray |-> FALSE, entries |-> << <<<<"a">>, 2>> >>]
       [] o = 2 -> [isArray |-> FALSE, entries |-> << <<<<"b">>, Prim>> >>]
       [] o = 3 -> [isArray |-> FALSE,
                    entries |-> << <<<<"c">>, 4>>, <<<<"z">>, Prim>>, <<<<"q">>, Prim>> >>]
       [] o = 4 -> [isArray |-> TRUE,
                    entries |-> << <<<<"0">>, 5>>, <<<<"1">>, Prim>> >>]
       [] o = 5 -> [isArray |-> FALSE, entries |-> << <<<<"d">>, Prim>> >>]
       [] o = 6 -> [isArray |-> FALSE, entries |-> << <<<<"a">>, Prim>> >>]
       \* one object under two keys: s = {x: 1}; {a: s, b: s}
       [] o = 7 -> [isArray |-> FALSE, entries |-> << <<<<"a">>, 8>>, <<<<"b">>, 8>> >>]
       [] o = 8 -> [isArray |-> FALSE, entries |-> << <<<<"x">>, Prim>> >>]
       \* an object that holds itself: o = {b: 1}; o.a = o
       [] o = 9 -> [isArray |-> FALSE, entries |-> << <<<<"a">>, 9>>, <<<<"b">>, Prim>> >>]
       \* two objects that hold each other
       [] o = 10 -> [isArray |-> FALSE, entries |-> << <<<<"x">>, 11>>, <<<<"z">>, Prim>> >>]
       [] o = 11 -> [isArray |-> FALSE, entries |-> << <<<<"y">>, 10>> >>]
       \* two objects that hold each other, both held by a third
       [] o = 12 -> [isArray |-> FALSE, entries |-> << <<<<"x">>, 13>>, <<<<"y">>, 14>> >>]
       [] o = 13 -> [isArray |-> FALSE, entries |-> << <<<<"p">>, 14>> >>]
       [] o = 14 -> [isArray |-> FALSE, entries |-> << <<<<"q">>, 13>> >>]
       \* {"k": [[{"x": 1}]]}
       [] o = 15 -> [isArray |-> FALSE, entries |-> << <<<<"k">>, 16>> >>]
       [] o = 16 -> [isArray |-> TRUE, entries |-> << <<<<"0">>, 17>> >>]
       [] o = 17 -> [isArray |-> TRUE, entries |-> << <<<<"0">>, 18>> >>]
       [] o = 18 -> [isArray |-> FALSE, entries |-> << <<<<"x">>, Prim>> >>]
       \* [{"a": 1}, 2]
       [] o = 19 -> [isArray |-> TRUE, entries |-> << <<<<"0">>, 20>>, <<<<"1">>, Prim>> >>]
       [] o = 20 -> [isArray |-> FALSE, entries |-> << <<<<"a">>, Prim>> >>]
       \* {"": {"b": 1, "c": 2}, "b": 3}
       [] o = 21 -> [isArray |-> FALSE, entries |-> << <<<<>>, 22>>, <<<<"b">>, Prim>> >>]
       [] o = 22 -> [isArray |-> FALSE, entries |-> << <<<<"b">>, Prim>>, <<<<"c">>, Prim>> >>]
       \* {"a": {"b": {"c": 1}}, "d": 2}
       [] o = 23 -> [isArray |-> FALSE, entries |-> << <<<<"a">>, 24>>, <<<<"d">>, Prim>> >>]
       [] o = 24 -> [isArray |-> FALSE, entries |-> << <<<<"b">>, 25>> >>]
       [] o = 25 -> [isArray |-> FALSE, entries |-> << <<<<"c">>, Prim>> >>]
       \* {"a.b": 1, "a": {"b": 2}}
       [] o = 26 -> [isArray |-> FALSE,
                     entries |-> << <<<<"a", ".", "b">>, Prim>>, <<<<"a">>, 27>> >>]
       [] o = 27 -> [isArray |-> FALSE, entries |-> << <<<<"b">>, Prim>> >>]
       \* {}
       [] o = 28 -> [isArray |-> FALSE, entries |-> <<>>]]

RECURSIVE extractKeysFromJson(_, _, _, _, _)
RECURSIVE ForEachEntry(_, _, _, _, _)
RECURSIVE processArrayElements(_, _, _, _, _)

\* the for..of loop adding a key for the primitive leaves only
ForEachEntry_LeavesOnly(entries, prefix, keys, separator, visited) ==
  IF entries = <<>> THEN [keys |-> keys, visited |-> visited]
  ELSE
    LET key == Head(entries)[1]
        value == Head(entries)[2]
        newKey == IF prefix # <<>> THEN prefix \o separator \o key ELSE key
        keys1 == IF value = Prim THEN keys \cup {newKey} ELSE keys
        after ==
          IF value # Prim
            THEN IF Heap[value].isArray
                   THEN processArrayElements(
                          [i \in 1..Len(Heap[value].entries) |-> Heap[value].entries[i][2]],
                          newKey, keys1, separator, visited)
                   ELSE extractKeysFromJson(value, newKey, keys1, separator, visited)
            ELSE [keys |-> keys1, visited |-> visited]
    IN ForEachEntry(Tail(entries), prefix, after.keys, separator, after.visited)

\* the body of the for..of loop over Object.entries(obj), from entry list `entries`
ForEachEntry(entries, prefix, keys, separator, visited) ==
  IF entries = <<>> THEN [keys |-> keys, visited |-> visited]
  ELSE
    LET key == Head(entries)[1]
        value == Head(entries)[2]
        newKey == IF prefix # <<>> THEN prefix \o separator \o key ELSE key
        keys1 == keys \cup {newKey}
        after ==
          IF value # Prim
            THEN IF Heap[value].isArray
                   THEN processArrayElements(
                          [i \in 1..Len(Heap[value].entries) |-> Heap[value].entries[i][2]],
                          newKey, keys1, separator, visited)
                   ELSE extractKeysFromJson(value, newKey, keys1, separator, visited)
            ELSE [keys |-> keys1, visited |-> visited]
    IN ForEachEntry(Tail(entries), prefix, after.keys, separator, after.visited)

extractKeysFromJson(obj, prefix, keys, separator, visited) ==
  IF obj = Prim \/ obj \in visited
    THEN [keys |-> keys, visited |-> visited]
    ELSE ForEachEntry(Heap[obj].entries, prefix, keys, separator, visited \cup {obj})

processArrayElements(array, prefix, keys, separator, visited) ==
  IF array = <<>> THEN [keys |-> keys, visited |-> visited]
  ELSE
    LET item == Head(array)
        after == IF item # Prim
                   THEN extractKeysFromJson(item, prefix, keys, separator, visited)
                   ELSE [keys |-> keys, visited |-> visited]
    IN processArrayElements(Tail(array), prefix, after.keys, separator, after.visited)

\* ------------------------------------------------------------ source extractor
\* A pattern's regex is either the source O([^C]*)C for two characters O and C
\* (kind "delim": a literal opener, group 1 = the characters up to the first
\* closer, possibly none), the source (C*) for a character C (kind "star":
\* group 1 = the longest run of C, possibly none, so the regex matches the empty
\* string) or a source that does not compile (kind "malformed").
Delim(o, c) == [kind |-> "delim", open |-> o, close |-> c]
Star(c) == [kind |-> "star", char |-> c]
Malformed == [kind |-> "malformed"]

\* least index >= from at which ch occurs in content, 0 when there is none
RECURSIVE IndexOf(_, _, _)
IndexOf(content, ch, from) ==
  IF from > Len(content) THEN 0
  ELSE IF content[from] = ch THEN from
  ELSE IndexOf(content, ch, from + 1)

\* RegExp.prototype.exec of a global regex: the leftmost match starting at or
\* after lastIndex (1-based here), and the lastIndex it leaves
\* least index >= from at which content holds something else than ch, or the end
RECURSIVE RunEnd(_, _, _)
RunEnd(content, ch, from) ==
  IF from > Len(content) \/ content[from] # ch THEN from
  ELSE RunEnd(content, ch, from + 1)

\* exec leaves lastIndex at the end of the match: where it was, after an empty
\* match; it fails only when lastIndex is beyond the end of content
RECURSIVE exec(_, _, _)
exec(regex, content, lastIndex) ==
  IF regex.kind = "star"
    THEN IF lastIndex > Len(content) + 1 THEN [found |-> FALSE]
         ELSE [found |-> TRUE,
               group1 |-> SubSeq(content, lastIndex, RunEnd(content, regex.char, lastIndex) - 1),
               lastIndex |-> RunEnd(content, regex.char, lastIndex)]
  ELSE IF lastIndex > Len(content) THEN [found |-> FALSE]
  ELSE
    LET close == IndexOf(content, regex.close, lastIndex + 1)
    IN IF content[lastIndex] = regex.open /\ close # 0
         THEN [found |-> TRUE,
               group1 |-> SubSeq(content, lastIndex + 1, close - 1),
               lastIndex |-> close + 1]
         ELSE exec(regex, content, lastIndex + 1)

\* const { regex, separator = defaultSeparator } of patterns
patternSeparator(p, defaultSeparator) ==
  IF "separator" \in DOMAIN p THEN p.separator ELSE defaultSeparator

\* the body of the while loop adding an empty capture too
addMatch_KeepsEmpty(match, keys, separator, defaultSeparator) ==
  SetAdd(keys, normalizeKey(match.group1, separator, defaultSeparator))

\* the body of the while loop for one match
addMatch(match, keys, separator, defaultSeparator) ==
  IF match.group1 # <<>>
    THEN SetAdd(keys, normalizeKey(match.group1, separator, defaultSeparator))
    ELSE keys

\* The while loop does not end from lastIndex on: exec is a function of the
\* regex, the content and lastIndex, so a match that leaves lastIndex where it
\* was is found again by every later call.
RECURSIVE LoopsForever(_, _, _)
LoopsForever(regex, content, lastIndex) ==
  LET match == exec(regex, content, lastIndex)
  IN /\ match.found
     /\ \/ match.lastIndex = lastIndex
        \/ LoopsForever(regex, content, match.lastIndex)

\* extractKeysFromSource does not return: a pattern reached before any
\* malformed one has a loop that does not end
RECURSIVE NeverReturns(_, _)
NeverReturns(content, patterns) ==
  /\ patterns # <<>>
  /\ Head(patterns).regex.kind # "malformed"
  /\ \/ LoopsForever(Head(patterns).regex, content, 1)
     \/ NeverReturns(content, Tail(patterns))

\* the while loop of extractKeysFromSource for one compiled pattern
RECURSIVE MatchLoop(_, _, _, _, _, _)
MatchLoop(regex, content, lastIndex, keys, separator, defaultSeparator) ==
  LET match == exec(regex, content, lastIndex)
  IN IF ~match.found THEN keys
     ELSE MatchLoop(regex, content, match.lastIndex,
                    IF match.group1 # <<>>
                      THEN SetAdd(keys, normalizeKey(match.group1, separator, defaultSeparator))
                      ELSE keys,
                    separator, defaultSeparator)

\* Adds to keys; new RegExp throws on a malformed source, after the earlier
\* patterns have already added their keys.
RECURSIVE extractKeysFromSource(_, _, _, _)
extractKeysFromSource(content, patterns, keys, defaultSeparator) ==
  IF patterns = <<>> THEN [threw |-> FALSE, keys |-> keys]
  ELSE
    LET p == Head(patterns)
        separator == IF "separator" \in DOMAIN p THEN p.separator ELSE defaultSeparator
    IN IF p.regex.kind = "malformed"
         THEN [threw |-> TRUE, keys |-> keys,
               message |-> [text |-> "Invalid regular expression"]]
         ELSE extractKeysFromSource(
                content, Tail(patterns),
                MatchLoop(p.regex, content, 1, keys, separator, defaultSeparator),
                defaultSeparator)

\* findMissingKeys collecting the keys back to front
RECURSIVE Reverse(_)
Reverse(seq) ==
  IF seq = <<>> THEN <<>> ELSE Append(Reverse(Tail(seq)), Head(seq))

findMissingKeys_Reversed(sourceKeys, jsonKeys) ==
  Reverse(SelectSeq(sourceKeys, LAMBDA key : key \notin jsonKeys))

\* ------------------------------------------------------------------ reconciler
findMissingKeys(sourceKeys, jsonKeys) ==
  SelectSeq(sourceKeys, LAMBDA key : key \notin jsonKeys)

\* createValidationResult setting errorMessage whatever success is
createValidationResult_AlwaysMessage(success, missingKeys) ==
  [success |-> success, missingKeys |-> missingKeys,
   errorMessage |-> [text |-> "Found N missing keys in translations: LIST",
                     count |-> Len(missingKeys),
                     list |-> join(missingKeys, <<",", " ">>)]]

createValidationResult(success, missingKeys) ==
  IF ~success
    THEN [success |-> success, missingKeys |-> missingKeys,
          errorMessage |-> [text |-> "Found N missing keys in translations: LIST",
                            count |-> Len(missingKeys),
                            list |-> join(missingKeys, <<",", " ">>)]]
    ELSE [success |-> success, missingKeys |-> missingKeys]

\* the success flag with strict left out
success_IgnoresStrict(missingKeys, strict) ==
  Len(missingKeys) = 0

\* The success flag validateKeys computes from the missing keys and strict.
success(missingKeys, strict) ==
  Len(missingKeys) = 0 \/ ~strict

\* ---------------------------------------------------------------- environment
\* Source files on disk: what fs.readFile gives for each.
SourceDisk(file) ==
  CASE file = "A.ts" ->
         [readable |-> TRUE,
          content |-> <<"(","a",".","b",")", "(","z",")", "(","a",".","b",")">>]
    [] file = "B.ts" ->
         [readable |-> TRUE,
          content |-> <<"[","c","/","d","]", "(",")", "(","q",")", "(","z",")">>]
    [] file = "U.ts" ->
         [readable |-> FALSE, message |-> [text |-> "File read error"]]

\* glob's sync(pattern) for the source globs: the files matched, or a throw
sync(pattern) ==
  CASE pattern = "a/*"  -> [threw |-> FALSE, files |-> <<"A.ts">>]
    [] pattern = "ub/*" -> [threw |-> FALSE, files |-> <<"U.ts", "B.ts">>]
    [] pattern = "bad"  -> [threw |-> TRUE, message |-> [text |-> "glob failed"]]

SourcePatternLists ==
  { <<>>, <<"a/*">>, <<"ub/*">>, <<"a/*", "ub/*">>, <<"ub/*", "a/*">>,
    <<"ub/*", "bad", "a/*">> }

P1 == [regex |-> Delim("(", ")")]
P2 == [regex |-> Delim("[", "]"), separator |-> <<"/">>]
PBad == [regex |-> Malformed]
PStar == [regex |-> Star("a")]
Q1 == [regex |-> Delim("(", ")"), separator |-> <<"/">>]

PatternLists == { <<P1, P2>>, <<P2, PBad, P1>>, <<P1, PStar>> }

\* inputs of extractKeysFromSource called on its own
TextAlphabet == {"(", ")", "a", "/"}
Texts == UNION {[1..n -> TextAlphabet] : n \in 0..MaxTextLen}
ScanPatternLists == { <<Q1, P1>>, <<P1, PStar>>, <<Q1, PBad>> }

\* What a JSON file on disk holds: two well-formed documents, one with a
\* duplicate key, one with a syntax error, one that cannot be read.
JsonKinds == {"good1", "good2", "dup", "bad", "gone"}

\* json-dup-key-validator's validate: an error text, or "" for no error
jvalidate(content, allowDuplicateKeys) ==
  CASE content = "bad" -> "Unexpected token"
    [] content = "dup" /\ ~allowDuplicateKeys -> "Duplicate key"
    [] OTHER -> ""

\* JSON.parse: the root of the parsed value in Heap, or a SyntaxError
JSONparse(content) ==
  CASE content = "bad"   -> [threw |-> TRUE, message |-> [text |-> "Unexpected token"]]
    [] content = "good1" -> [threw |-> FALSE, value |-> 1]
    [] content = "good2" -> [threw |-> FALSE, value |-> 3]
    [] content = "dup"   -> [threw |-> FALSE, value |-> 6]

\* keyValidation as the user may write it: separator and strict are optional
KeyValidations ==
  {[enabled |-> FALSE]}
  \cup [enabled : {TRUE}, patterns : PatternLists, sourceFiles : SourcePatternLists]
  \cup [enabled : {TRUE}, patterns : PatternLists, sourceFiles : SourcePatternLists,
        strict : BOOLEAN]
  \cup [enabled : {TRUE}, patterns : PatternLists, sourceFiles : SourcePatternLists,
        strict : {FALSE}, separator : {<<"/">>}]
  \cup [enabled : {TRUE}, patterns : PatternLists, sourceFiles : SourcePatternLists,
        separator : {<<"/">>}]

\* ---------------------------------------------------------------------- state
VARIABLES
  config,      \* ValidateJsonConfig given to validateJsonPaths
  disk,        \* JSON files the paths globs match, in match order: file i holds disk[i]
  pc,          \* buildStart: "idle", "validate", "call", "keys", "done", "threw"
  files,       \* buildStart's files
  idx,         \* position of the for loop over files
  thrown,      \* message of the error buildStart rejected with
  keyConfig,   \* the KeyValidationConfig of the current validateKeys call
  vkPc,        \* validateKeys: "Idle", "ScanningSource", "ScanningJson",
               \* "Reconciling", "Done", "Threw"
  srcIdx,      \* extractSourceKeys: index of the current glob pattern
  synced,      \* extractSourceKeys: sync was called for the current pattern
  pending,     \* extractSourceKeys: files of the current pattern not yet read
  sourceKeys,  \* extractSourceKeys: the insertion-ordered Set
  jsonIdx,     \* extractJsonKeys: index of the next file
  jsonKeys,    \* extractJsonKeys: the Set
  result,      \* what validateKeys returned
  raised,      \* history: the error that reached validateKeys' catch in this call
  discovered,  \* history: keys in the order source scanning produced them
  log,         \* history: the I/O and calls of this build, in order
  scan,        \* extractKeysFromSource called on its own: its arguments and locals
  flat,        \* extractKeysFromJson called on its own: its arguments and its Sets
  norm         \* normalizeKey called on its own: its arguments and its result

vars == <<config, disk, pc, files, idx, thrown, keyConfig, vkPc, srcIdx, synced,
          pending, sourceKeys, jsonIdx, jsonKeys, result, raised, discovered, log,
          scan, flat, norm>>

hookVars == <<pc, files, idx, thrown>>
envVars == <<config, disk>>
srcVars == <<srcIdx, synced, pending, sourceKeys, discovered>>
jsonVars == <<jsonIdx, jsonKeys>>
unitVars == <<scan, flat, norm>>

\* no call of the function on its own is in progress
NoCall == [pc |-> "none"]

NoError == [none |-> TRUE]
NoResult == [pending |-> TRUE]
NoConfig == [unset |-> TRUE]

Ev(op, json, src) == [op |-> op, json |-> json, src |-> src]

Init ==
  /\ config \in [allowDuplicateKeys : BOOLEAN, keyValidation : KeyValidations]
  /\ disk \in UNION {[1..n -> JsonKinds] : n \in 0..MaxJsonFiles}
  /\ pc = "idle"
  /\ files = <<>>
  /\ idx = 1
  /\ thrown = NoError
  /\ keyConfig = NoConfig
  /\ vkPc = "Idle"
  /\ srcIdx = 1
  /\ synced = FALSE
  /\ pending = <<>>
  /\ sourceKeys = <<>>
  /\ jsonIdx = 1
  /\ jsonKeys = {}
  /\ result = NoResult
  /\ raised = NoError
  /\ discovered = <<>>
  /\ log = <<>>
  /\ scan = NoCall
  /\ flat = NoCall
  /\ norm = NoCall

\* ------------------------------------------------------- buildStart's helpers
\* The concatenation of the matches of every paths glob: the files on disk,
\* named by their position in match order.
collectJsonFiles == [i \in 1..Len(disk) |-> i]

\* Reads the file and runs the syntax/duplicate-key validator on its content.
validateJsonFile(filePath, allowDuplicateKeys) ==
  IF disk[filePath] = "gone"
    THEN [threw |-> TRUE, outcome |-> "unreadable",
          message |-> [text |-> "ENOENT", file |-> filePath]]
    ELSE
      LET content == disk[filePath]
          error == jvalidate(content, allowDuplicateKeys)
      IN IF error # ""
           THEN [threw |-> TRUE, outcome |-> "rejected",
                 message |-> [text |-> "Error while validating FILE with error ERROR",
                              file |-> filePath, cause |-> error]]
           ELSE [threw |-> FALSE, outcome |-> "accepted", content |-> content]

\* keyConfig with || in place of ??: a falsy value given by the user is replaced
buildKeyConfig_OrDefaults(keyValidation, jsonFiles) ==
  [patterns |-> keyValidation.patterns,
   sourceFiles |-> keyValidation.sourceFiles,
   jsonFiles |-> jsonFiles,
   separator |-> IF "separator" \in DOMAIN keyValidation /\ keyValidation.separator # <<>>
                   THEN keyValidation.separator ELSE <<".">>,
   strict |-> IF "strict" \in DOMAIN keyValidation /\ keyValidation.strict
                THEN keyValidation.strict ELSE TRUE]

\* The KeyValidationConfig buildStart hands to validateKeys.
buildKeyConfig(keyValidation, jsonFiles) ==
  [patterns |-> keyValidation.patterns,
   sourceFiles |-> keyValidation.sourceFiles,
   jsonFiles |-> jsonFiles,
   separator |-> IF "separator" \in DOMAIN keyValidation
                   THEN keyValidation.separator ELSE <<".">>,
   strict |-> IF "strict" \in DOMAIN keyValidation
                THEN keyValidation.strict ELSE TRUE]

\* buildStart logging a failed result instead of throwing
handleResult_NeverThrows(res) ==
  [threw |-> FALSE]

\* What buildStart does with the ValidationResult: log it, or throw.
handleResult(res) ==
  IF res.success
    THEN [threw |-> FALSE]
    ELSE [threw |-> TRUE,
          message |-> IF "errorMessage" \in DOMAIN res
                        THEN res.errorMessage
                        ELSE [text |-> "Key validation failed"]]

\* ------------------------------------------------------ validateKeys' helpers
\* validateKeys' catch block rethrowing the error
TopLevelCatch_Rethrows(message) ==
  [outcome |-> "threw", value |-> NoResult]

\* The catch block of validateKeys.
TopLevelCatch(message) ==
  [outcome |-> "returned",
   value |-> [success |-> FALSE, missingKeys |-> <<>>, errorMessage |-> message]]

\* extractSourceKeys letting a read error out of the loop
readSourceFile_Rethrows(file, patterns, keys, defaultSeparator) ==
  IF ~SourceDisk(file).readable
    THEN [threw |-> TRUE, message |-> SourceDisk(file).message]
    ELSE
      LET r == extractKeysFromSource(SourceDisk(file).content, patterns, keys,
                                     defaultSeparator)
      IN [threw |-> FALSE,
          outcome |-> IF r.threw THEN "extractError" ELSE "ok",
          keys |-> r.keys]

\* The try/catch around one source file in extractSourceKeys: any error of the
\* read or of the extraction is logged as a warning and the loop goes on.
readSourceFile(file, patterns, keys, defaultSeparator) ==
  IF ~SourceDisk(file).readable
    THEN [threw |-> FALSE, outcome |-> "readError", keys |-> keys]
    ELSE
      LET r == extractKeysFromSource(SourceDisk(file).content, patterns, keys,
                                     defaultSeparator)
      IN [threw |-> FALSE,
          outcome |-> IF r.threw THEN "extractError" ELSE "ok",
          keys |-> r.keys]

\* extractJsonKeys skipping a file it cannot parse, as extractSourceKeys does
readJsonFile_Skips(file, separator, keys) ==
  LET parsed == IF disk[file] = "gone"
                  THEN [threw |-> TRUE, message |-> [text |-> "ENOENT"]]
                  ELSE JSONparse(disk[file])
  IN IF parsed.threw
       THEN [threw |-> FALSE, keys |-> keys]
       ELSE [threw |-> FALSE,
             keys |-> extractKeysFromJson(parsed.value, <<>>, keys, separator, {}).keys]

\* The try/catch around one JSON file in extractJsonKeys: any error of the read,
\* the parse or the flattening is rethrown with the file's path in front.
readJsonFile(file, separator, keys) ==
  LET parsed == IF disk[file] = "gone"
                  THEN [threw |-> TRUE, message |-> [text |-> "ENOENT"]]
                  ELSE JSONparse(disk[file])
  IN IF parsed.threw
       THEN [threw |-> TRUE,
             message |-> [text |-> "Error parsing JSON file FILE: CAUSE",
                          file |-> file, cause |-> parsed.message.text]]
       ELSE [threw |-> FALSE,
             keys |-> extractKeysFromJson(parsed.value, <<>>, keys, separator, {}).keys]

\* extractKeysFromSource is reached with the file's content and does not return
SourceNeverReturns(file, patterns) ==
  SourceDisk(file).readable /\ NeverReturns(SourceDisk(file).content, patterns)

\* ------------------------------------------------------------------- actions
\* The end of one iteration of buildStart's loop over files.
NextIteration ==
  /\ idx' = idx + 1
  /\ pc' = IF idx + 1 > Len(files) THEN "done" ELSE "validate"
  /\ thrown' = thrown

\* An error reaches validateKeys' catch block.
Caught(message) ==
  LET c == TopLevelCatch(message)
  IN /\ raised' = message
     /\ vkPc' = IF c.outcome = "returned" THEN "Done" ELSE "Threw"
     /\ result' = IF c.outcome = "returned" THEN c.value ELSE NoResult

\* buildStart up to the loop: collect the files the paths globs match.
BuildStart ==
  /\ pc = "idle"
  /\ files' = collectJsonFiles
  /\ idx' = 1
  /\ pc' = IF files' = <<>> THEN "done" ELSE "validate"
  /\ log' = Append(log, Ev("collect", 0, ""))
  /\ UNCHANGED <<envVars, unitVars, thrown, keyConfig, vkPc, srcVars, jsonVars, result, raised>>

\* await validateJsonFile(file, allowDuplicateKeys) for the current file
ValidateFile ==
  /\ pc = "validate"
  /\ LET r == validateJsonFile(files[idx], config.allowDuplicateKeys)
     IN /\ log' = Append(log, Ev(r.outcome, files[idx], ""))
        /\ IF r.threw
             THEN pc' = "threw" /\ thrown' = r.message /\ idx' = idx
             ELSE IF config.keyValidation.enabled
               THEN pc' = "call" /\ thrown' = thrown /\ idx' = idx
               ELSE NextIteration
  /\ UNCHANGED <<envVars, unitVars, files, keyConfig, vkPc, srcVars, jsonVars, result, raised>>

\* keyValidation.enabled: parse the validated content, build the config and
\* call validateKeys, which starts extractSourceKeys with an empty Set.
CallValidateKeys ==
  /\ pc = "call"
  /\ LET json == JSONparse(disk[files[idx]])
     IN IF json.threw
          THEN /\ pc' = "threw"
               /\ thrown' = json.message
               /\ log' = log
               /\ UNCHANGED <<keyConfig, vkPc, srcVars, jsonVars, result, raised>>
          ELSE /\ pc' = "keys"
               /\ thrown' = thrown
               /\ keyConfig' = buildKeyConfig(config.keyValidation, files)
               /\ vkPc' = "ScanningSource"
               /\ srcIdx' = 1
               /\ synced' = FALSE
               /\ pending' = <<>>
               /\ sourceKeys' = <<>>
               /\ discovered' = <<>>
               /\ jsonIdx' = 1
               /\ jsonKeys' = {}
               /\ result' = NoResult
               /\ raised' = NoError
               /\ log' = Append(log, Ev("validateKeys", 0, ""))
  /\ UNCHANGED <<envVars, unitVars, files, idx>>

\* extractSourceKeys: sync(pattern) for the next glob pattern
SyncSourcePattern ==
  /\ vkPc = "ScanningSource"
  /\ ~synced
  /\ srcIdx <= Len(keyConfig.sourceFiles)
  /\ LET r == sync(keyConfig.sourceFiles[srcIdx])
     IN IF r.threw
          THEN /\ Caught(r.message)
               /\ log' = Append(log, Ev("syncThrew", 0, keyConfig.sourceFiles[srcIdx]))
               /\ UNCHANGED srcVars
          ELSE /\ log' = Append(log, Ev("sync", 0, keyConfig.sourceFiles[srcIdx]))
               /\ IF r.files = <<>>
                    THEN srcIdx' = srcIdx + 1 /\ synced' = FALSE /\ pending' = <<>>
                    ELSE srcIdx' = srcIdx /\ synced' = TRUE /\ pending' = r.files
               /\ UNCHANGED <<sourceKeys, discovered, vkPc, result, raised>>
  /\ UNCHANGED <<envVars, unitVars, hookVars, keyConfig, jsonVars>>

\* extractSourceKeys: the next matched file is read and extractKeysFromSource,
\* called with its content, stays in a while loop for ever
ReadSourceFileLoops ==
  /\ vkPc = "ScanningSource"
  /\ synced
  /\ pending # <<>>
  /\ SourceNeverReturns(Head(pending), keyConfig.patterns) = TRUE
  /\ vkPc' = "Looping"
  /\ log' = Append(log, Ev("sourceLoops", 0, Head(pending)))
  /\ UNCHANGED <<envVars, unitVars, hookVars, keyConfig, srcVars, jsonVars, result, raised>>

\* extractSourceKeys: read the next matched file and extract its keys
ReadSourceFile ==
  /\ vkPc = "ScanningSource"
  /\ synced
  /\ pending # <<>>
  /\ SourceNeverReturns(Head(pending), keyConfig.patterns) = FALSE
  /\ LET file == Head(pending)
         r == readSourceFile(file, keyConfig.patterns, sourceKeys, keyConfig.separator)
         alone == readSourceFile(file, keyConfig.patterns, <<>>, keyConfig.separator)
     IN IF r.threw
          THEN /\ Caught(r.message)
               /\ log' = Append(log, Ev("sourceThrew", 0, file))
               /\ UNCHANGED srcVars
          ELSE /\ sourceKeys' = r.keys
               /\ discovered' = discovered \o alone.keys
               /\ pending' = Tail(pending)
               /\ synced' = (Tail(pending) # <<>>)
               /\ srcIdx' = IF Tail(pending) = <<>> THEN srcIdx + 1 ELSE srcIdx
               /\ log' = Append(log, Ev(IF r.outcome = "ok" THEN "sourceRead"
                                        ELSE IF r.outcome = "readError" THEN "sourceUnreadable"
                                        ELSE "sourceExtractError", 0, file))
               /\ UNCHANGED <<vkPc, result, raised>>
  /\ UNCHANGED <<envVars, unitVars, hookVars, keyConfig, jsonVars>>

\* extractSourceKeys returns; validateKeys calls extractJsonKeys
FinishSourceScan ==
  /\ vkPc = "ScanningSource"
  /\ ~synced
  /\ srcIdx > Len(keyConfig.sourceFiles)
  /\ vkPc' = "ScanningJson"
  /\ UNCHANGED <<envVars, unitVars, hookVars, keyConfig, srcVars, jsonVars, result, raised, log>>

\* extractJsonKeys: read, parse and flatten the next JSON file
ReadJsonFile ==
  /\ vkPc = "ScanningJson"
  /\ jsonIdx <= Len(keyConfig.jsonFiles)
  /\ LET file == keyConfig.jsonFiles[jsonIdx]
         r == readJsonFile(file, keyConfig.separator, jsonKeys)
     IN IF r.threw
          THEN /\ Caught(r.message)
               /\ log' = Append(log, Ev("jsonFailed", file, ""))
               /\ UNCHANGED jsonVars
          ELSE /\ jsonKeys' = r.keys
               /\ jsonIdx' = jsonIdx + 1
               /\ log' = Append(log, Ev("jsonRead", file, ""))
               /\ UNCHANGED <<vkPc, result, raised>>
  /\ UNCHANGED <<envVars, unitVars, hookVars, keyConfig, srcVars>>

\* extractJsonKeys returns
FinishJsonScan ==
  /\ vkPc = "ScanningJson"
  /\ jsonIdx > Len(keyConfig.jsonFiles)
  /\ vkPc' = "Reconciling"
  /\ UNCHANGED <<envVars, unitVars, hookVars, keyConfig, srcVars, jsonVars, result, raised, log>>

\* findMissingKeys, the success flag and createValidationResult
Reconcile ==
  /\ vkPc = "Reconciling"
  /\ LET missingKeys == findMissingKeys(sourceKeys, jsonKeys)
     IN result' = createValidationResult(success(missingKeys, keyConfig.strict),
                                         missingKeys)
  /\ vkPc' = "Done"
  /\ log' = Append(log, Ev("reconcile", 0, ""))
  /\ UNCHANGED <<envVars, unitVars, hookVars, keyConfig, srcVars, jsonVars, raised>>

\* buildStart receives validateKeys' outcome
HandleResult ==
  /\ pc = "keys"
  /\ vkPc \in {"Done", "Threw"}
  /\ IF vkPc = "Threw"
       THEN /\ pc' = "threw" /\ thrown' = raised /\ idx' = idx
            /\ log' = Append(log, Ev("keysThrew", 0, ""))
       ELSE /\ log' = Append(log, Ev(IF ~result.success THEN "keysFailed"
                                     ELSE IF result.missingKeys # <<>> THEN "keysWarned"
                                     ELSE "keysPassed", 0, ""))
            /\ LET h == handleResult(result)
               IN IF h.threw
                    THEN pc' = "threw" /\ thrown' = h.message /\ idx' = idx
                    ELSE NextIteration
  /\ vkPc' = "Idle"
  /\ UNCHANGED <<envVars, unitVars, files, keyConfig, srcVars, jsonVars, result, raised>>

Next ==
  \/ BuildStart
  \/ ValidateFile
  \/ CallValidateKeys
  \/ SyncSourcePattern
  \/ ReadSourceFile
  \/ ReadSourceFileLoops
  \/ FinishSourceScan
  \/ ReadJsonFile
  \/ FinishJsonScan
  \/ Reconcile
  \/ HandleResult

Spec == Init /\ [][Next]_vars

\* ------------------------------------------- the helpers called on their own
\* The buildStart hook is not running.
Parked ==
  /\ config = [allowDuplicateKeys |-> FALSE, keyValidation |-> [enabled |-> FALSE]]
  /\ disk = <<>>
  /\ pc = "parked"
  /\ files = <<>>
  /\ idx = 1
  /\ thrown = NoError
  /\ keyConfig = NoConfig
  /\ vkPc = "Idle"
  /\ srcIdx = 1
  /\ synced = FALSE
  /\ pending = <<>>
  /\ sourceKeys = <<>>
  /\ jsonIdx = 1
  /\ jsonKeys = {}
  /\ result = NoResult
  /\ raised = NoError
  /\ discovered = <<>>
  /\ log = <<>>

buildVars == <<config, disk, pc, files, idx, thrown, keyConfig, vkPc, srcIdx, synced,
               pending, sourceKeys, jsonIdx, jsonKeys, result, raised, discovered, log>>

\* extractKeysFromSource(content, patterns, keys, defaultSeparator) with an
\* empty Set, one step per loop iteration.  pat is the position of the for..of
\* loop, lastIndex that of patternRegex, iter the matches of the current while
\* loop so far.
InitScan ==
  /\ Parked
  /\ flat = NoCall
  /\ norm = NoCall
  /\ scan \in {[pc |-> "for", content |-> c, patterns |-> ps, defaultSeparator |-> <<".">>,
                 pat |-> 1, lastIndex |-> 1, keys |-> <<>>, iter |-> 0] :
                c \in Texts, ps \in ScanPatternLists}

\* the head of the for..of loop and new RegExp(regex, "g")
ForPattern ==
  /\ scan.pc = "for"
  /\ scan' = IF scan.pat > Len(scan.patterns)
               THEN [scan EXCEPT !.pc = "returned"]
             ELSE IF scan.patterns[scan.pat].regex.kind = "malformed"
               THEN [scan EXCEPT !.pc = "threw"]
             ELSE [scan EXCEPT !.pc = "while", !.lastIndex = 1, !.iter = 0]
  /\ UNCHANGED <<buildVars, flat, norm>>

\* one evaluation of the while condition, and the loop body when exec matched;
\* iter stops counting one past the length of content
ExecMatch ==
  /\ scan.pc = "while"
  /\ scan.iter <= Len(scan.content)
  /\ LET p == scan.patterns[scan.pat]
         match == exec(p.regex, scan.content, scan.lastIndex)
     IN scan' = IF ~match.found
                  THEN [scan EXCEPT !.pc = "for", !.pat = scan.pat + 1]
                  ELSE [scan EXCEPT
                          !.keys = addMatch(match, scan.keys,
                                            patternSeparator(p, scan.defaultSeparator),
                                            scan.defaultSeparator),
                          !.lastIndex = match.lastIndex,
                          !.iter = scan.iter + 1]
  /\ UNCHANGED <<buildVars, flat, norm>>

NextScan == ForPattern \/ ExecMatch

SpecScan == InitScan /\ [][NextScan]_vars

\* extractKeysFromJson(obj, prefix, keys, separator) with an empty Set and the
\* default visited, on every object of the heap.
Separators == {<<".">>, <<"/">>, <<":", ":">>}

InitFlatten ==
  /\ Parked
  /\ scan = NoCall
  /\ norm = NoCall
  /\ flat \in {[pc |-> "call", obj |-> o, prefix |-> p, separator |-> sep,
                 keys |-> {}, visited |-> {}] :
                o \in DOMAIN Heap, p \in {<<>>, <<"p">>}, sep \in Separators}

Flatten ==
  /\ flat.pc = "call"
  /\ LET r == extractKeysFromJson(flat.obj, flat.prefix, flat.keys, flat.separator,
                                  flat.visited)
     IN flat' = [flat EXCEPT !.pc = "returned", !.keys = r.keys, !.visited = r.visited]
  /\ UNCHANGED <<buildVars, scan, norm>>

NextFlatten == Flatten

SpecFlatten == InitFlatten /\ [][NextFlatten]_vars

\* normalizeKey(key, currentSeparator, targetSeparator) on every short key
KeyAlphabet == {"a", ".", "/", ":"}
Keys == UNION {[1..n -> KeyAlphabet] : n \in 0..MaxKeyLen}
NormSeparators == Separators \cup {<<":">>, <<>>}

InitNormalize ==
  /\ Parked
  /\ scan = NoCall
  /\ flat = NoCall
  /\ norm \in {[pc |-> "call", key |-> k, currentSeparator |-> from,
                 targetSeparator |-> to, out |-> <<>>] :
                k \in Keys, from \in NormSeparators, to \in NormSeparators}

Normalize ==
  /\ norm.pc = "call"
  /\ norm' = [norm EXCEPT !.pc = "returned",
                          !.out = normalizeKey(norm.key, norm.currentSeparator,
                                               norm.targetSeparator)]
  /\ UNCHANGED <<buildVars, scan, flat>>

NextNormalize == Normalize

SpecNormalize == InitNormalize /\ [][NextNormalize]_vars

\* ------------------------------------------------------- history and reference
\* the part of log that belongs to the current (latest) validateKeys call
LastCall ==
  LET calls == {i \in 1..Len(log) : log[i].op = "validateKeys"}
  IN IF calls = {} THEN 0 ELSE CHOOSE i \in calls : \A j \in calls : j <= i

CurrentCall == SubSeq(log, LastCall + 1, Len(log))

Ops(events) == {events[i].op : i \in 1..Len(events)}

NumCalls == Cardinality({i \in 1..Len(log) : log[i].op = "validateKeys"})

\* position of the first occurrence of x in seq
FirstPos(seq, x) ==
  CHOOSE i \in 1..Len(seq) : seq[i] = x /\ \A j \in 1..(i - 1) : seq[j] # x

NoDuplicates(seq) ==
  \A i, j \in 1..Len(seq) : i # j => seq[i] # seq[j]

Unparseable(file) == disk[file] \in {"bad", "gone"}

\* flattened keys of one parseable JSON file, under the call's separator
FlatKeys(file) ==
  extractKeysFromJson(JSONparse(disk[file]).value, <<>>, {}, keyConfig.separator, {}).keys

AllJsonKeys == UNION {FlatKeys(f) : f \in Range(keyConfig.jsonFiles)}

Reconciled == vkPc = "Done" /\ raised = NoError

\* --------------------------------------------------------------------- claims
\* C1: validateKeys never propagates an exception: every call ends by returning
\* a ValidationResult, and when an error reached its catch block the result is
\* success=false, missingKeys=[] and errorMessage = the error's message.
C1_NeverPropagates ==
  /\ vkPc # "Threw"
  /\ pc = "threw" => log[Len(log)].op # "keysThrew"
  /\ vkPc = "Done" =>
       /\ {"success", "missingKeys"} \subseteq DOMAIN result
       /\ (Ops(CurrentCall) \cap {"syncThrew", "jsonFailed", "sourceThrew"} # {})
            <=> raised # NoError
       /\ raised # NoError =>
            result = [success |-> FALSE, missingKeys |-> <<>>, errorMessage |-> raised]

C1_Witness ==
  /\ vkPc = "Done"
  /\ raised # NoError
  /\ "syncThrew" \in Ops(CurrentCall)

\* C2: after reconciliation missingKeys holds exactly the discovered source
\* keys that no JSON file's flattened key set has, each once, in the order
\* source scanning first discovered them.
C2_MissingKeysInDiscoveryOrder ==
  Reconciled =>
    /\ Range(result.missingKeys) = Range(discovered) \ AllJsonKeys
    /\ NoDuplicates(result.missingKeys)
    /\ \A i, j \in 1..Len(result.missingKeys) :
         i < j => FirstPos(discovered, result.missingKeys[i])
                    < FirstPos(discovered, result.missingKeys[j])

\* three missing keys, not in alphabetical order, one found key, one key
\* discovered twice
C2_Witness ==
  /\ Reconciled
  /\ result.missingKeys = << <<"z">>, <<"q">>, <<"c", ".", "d">> >>
  /\ Len(discovered) > Len(sourceKeys)
  /\ Range(sourceKeys) \cap AllJsonKeys # {}

\* C3: after reconciliation success is true exactly when nothing is missing or
\* strict is false; with strict=false the missing keys are still listed.
C3_SuccessIffNoneMissingOrLenient ==
  Reconciled =>
    /\ result.success <=> (Range(discovered) \ AllJsonKeys = {} \/ ~keyConfig.strict)
    /\ Range(result.missingKeys) = Range(discovered) \ AllJsonKeys

C3_Witness ==
  /\ Reconciled
  /\ ~keyConfig.strict
  /\ result.success
  /\ result.missingKeys # <<>>

\* C4: a returned ValidationResult has an errorMessage exactly when success is
\* false; a strict-mode failure's message gives the number of missing keys and
\* lists every one of them.
C4_ErrorMessageIffFailure ==
  vkPc = "Done" =>
    /\ ("errorMessage" \in DOMAIN result) <=> ~result.success
    /\ (raised = NoError /\ ~result.success) =>
         /\ result.missingKeys # <<>>
         /\ result.errorMessage.count = Len(result.missingKeys)
         /\ split(result.errorMessage.list, <<",", " ">>) = result.missingKeys

C4_Witness ==
  /\ Reconciled
  /\ ~result.success
  /\ Len(result.missingKeys) >= 2
\* The run as it would be had glob not matched the unreadable source files:
\* a fold over the remaining files with no failure path for reads.
ReadableMatches(pattern) ==
  SelectSeq(sync(pattern).files, LAMBDA f : SourceDisk(f).readable)

RECURSIVE RefSourceFiles(_, _, _, _)
RefSourceFiles(fileList, patterns, keys, separator) ==
  IF fileList = <<>> THEN keys
  ELSE RefSourceFiles(
         Tail(fileList), patterns,
         extractKeysFromSource(SourceDisk(Head(fileList)).content, patterns, keys,
                               separator).keys,
         separator)

RECURSIVE RefSourceKeys(_, _, _, _)
RefSourceKeys(globs, patterns, keys, separator) ==
  IF globs = <<>> THEN [threw |-> FALSE, keys |-> keys]
  ELSE IF sync(Head(globs)).threw
    THEN [threw |-> TRUE, message |-> sync(Head(globs)).message]
    ELSE RefSourceKeys(Tail(globs), patterns,
                       RefSourceFiles(ReadableMatches(Head(globs)), patterns, keys,
                                      separator),
                       separator)

RefResult(cfg) ==
  LET src == RefSourceKeys(cfg.sourceFiles, cfg.patterns, <<>>, cfg.separator)
      broken == {i \in 1..Len(cfg.jsonFiles) : Unparseable(cfg.jsonFiles[i])}
      missing == SelectSeq(src.keys, LAMBDA k : k \notin AllJsonKeys)
  IN IF src.threw
       THEN [kind |-> "error", message |-> src.message]
       ELSE IF broken # {}
         THEN [kind |-> "jsonError",
               file |-> cfg.jsonFiles[CHOOSE i \in broken : \A j \in broken : i <= j]]
         ELSE [kind |-> "reconciled",
               success |-> (missing = <<>> \/ ~cfg.strict),
               missingKeys |-> missing]

\* what kind of result the run produced, in the shape of RefResult
ResultSummary ==
  IF raised = NoError
    THEN [kind |-> "reconciled", success |-> result.success,
          missingKeys |-> result.missingKeys]
    ELSE IF "file" \in DOMAIN raised
      THEN [kind |-> "jsonError", file |-> raised.file]
      ELSE [kind |-> "error", message |-> raised]

\* source files of the current call that were matched and have been handled
SourceEvents ==
  SelectSeq(CurrentCall,
            LAMBDA e : e.op \in {"sourceRead", "sourceUnreadable", "sourceExtractError"})

AllMatches(globs) ==
  Concat([i \in 1..Len(globs) |-> sync(globs[i]).files])

\* some glob matches an unreadable file and no glob before it throws
ReachesUnreadable(globs) ==
  \E i \in 1..Len(globs) :
    /\ \A j \in 1..i : ~sync(globs[j]).threw
    /\ \E k \in 1..Len(sync(globs[i]).files) : ~SourceDisk(sync(globs[i]).files[k]).readable

\* C5: a source file that cannot be read is skipped and adds no key, the files
\* after it are still scanned, the run goes on to the JSON files and to
\* reconciliation, and the result equals that of a run in which the unreadable
\* files were not matched at all.
C5_SourceReadFailureSkipped ==
  /\ (CurrentCall # <<>> /\ CurrentCall[Len(CurrentCall)].op = "sourceUnreadable") =>
       vkPc = "ScanningSource" /\ raised = NoError
  /\ (vkPc = "Done" /\ ReachesUnreadable(keyConfig.sourceFiles)) =>
       /\ "sourceUnreadable" \in Ops(CurrentCall)
       /\ ResultSummary = RefResult(keyConfig)
       /\ "syncThrew" \notin Ops(CurrentCall) =>
            /\ [i \in 1..Len(SourceEvents) |-> SourceEvents[i].src]
                 = AllMatches(keyConfig.sourceFiles)
            /\ Ops(CurrentCall) \cap {"jsonRead", "jsonFailed"} # {}
       /\ raised = NoError => "reconcile" \in Ops(CurrentCall)

\* Scenario E: the unreadable file is first, the readable one after it is
\* scanned and its keys are all found
C5_Witness ==
  /\ Reconciled
  /\ "sourceUnreadable" \in Ops(CurrentCall)
  /\ result.success
  /\ result.missingKeys = <<>>
  /\ sourceKeys # <<>>
  /\ keyConfig.strict
  /\ "sourceExtractError" \notin Ops(CurrentCall)

\* C6: a JSON file that cannot be parsed fails the run whatever strict is: no
\* JSON file after it is read, nothing is reconciled, and validateKeys returns
\* success=false, missingKeys=[] and a message with the file's path and the
\* parse error.
C6_JsonParseFailureFatal ==
  pc = "keys" =>
    /\ \A i \in 1..Len(keyConfig.jsonFiles) :
         Unparseable(keyConfig.jsonFiles[i]) =>
           /\ jsonIdx <= i
           /\ vkPc # "Reconciling"
           /\ ~Reconciled
           /\ \A k \in 1..Len(CurrentCall) :
                CurrentCall[k].op \in {"jsonRead", "jsonFailed"}
                  => CurrentCall[k].json <= keyConfig.jsonFiles[i]
    /\ "jsonFailed" \in Ops(CurrentCall) =>
         /\ vkPc = "Done"
         /\ "reconcile" \notin Ops(CurrentCall)
         /\ CurrentCall[Len(CurrentCall)].op = "jsonFailed"
         /\ Unparseable(CurrentCall[Len(CurrentCall)].json)
         /\ result.success = FALSE
         /\ result.missingKeys = <<>>
         /\ result.errorMessage.file = CurrentCall[Len(CurrentCall)].json
         /\ result.errorMessage.cause =
              (IF disk[result.errorMessage.file] = "bad" THEN "Unexpected token"
               ELSE "ENOENT")

\* non-strict run, the second of three JSON files is broken
C6_Witness ==
  /\ pc = "keys"
  /\ vkPc = "Done"
  /\ ~keyConfig.strict
  /\ Len(keyConfig.jsonFiles) = 3
  /\ "jsonFailed" \in Ops(CurrentCall)
  /\ result.errorMessage.file = 2
  /\ sourceKeys # <<>>
HasMalformedPattern(patterns) ==
  \E i \in 1..Len(patterns) : patterns[i].regex.kind = "malformed"

\* C7: a config with a pattern whose regex does not compile makes validateKeys
\* return a failed ValidationResult (success=false, with an errorMessage).
C7_MalformedRegexFails ==
  (vkPc = "Done" /\ HasMalformedPattern(keyConfig.patterns)) =>
    /\ ~result.success
    /\ "errorMessage" \in DOMAIN result

\* C8: buildStart throws when validateJsonFile fails on a file and when
\* validateKeys returns success=false, and at nothing else: a result with
\* missing keys in non-strict mode (success=true) only logs, and the loop goes
\* on.
C8_BuildThrowsOnFailureOnly ==
  /\ \A i \in 1..Len(log) :
       /\ log[i].op \in {"rejected", "unreadable", "keysFailed"} =>
            pc = "threw" /\ i = Len(log)
       /\ (log[i].op = "keysWarned" /\ i = Len(log)) => pc \in {"validate", "done"}
  /\ pc = "threw" =>
       log[Len(log)].op \in {"rejected", "unreadable", "keysFailed"}

\* a build that ends without throwing although a validateKeys call reported
\* missing keys
C8_Witness ==
  /\ pc = "done"
  /\ "keysWarned" \in Ops(log)
  /\ ~keyConfig.strict
  /\ result.missingKeys # <<>>

\* C9: when the validator rejects a file the build stops there: every file
\* before it was checked exactly once and no file after it was read or checked.
C9_NothingAfterRejectedFile ==
  \A i \in 1..Len(log) :
    log[i].op = "rejected" =>
      /\ \A f \in 1..(log[i].json - 1) :
           Cardinality({k \in 1..Len(log) :
                          log[k].json = f
                            /\ log[k].op \in {"accepted", "rejected", "unreadable"}}) = 1
      /\ \A k \in 1..Len(log) : log[k].json <= log[i].json

\* C10: with key validation enabled a build calls validateKeys exactly once,
\* however many JSON files the paths globs match.
C10_ValidateKeysOncePerBuild ==
  /\ NumCalls <= 1
  /\ (pc = "done" /\ config.keyValidation.enabled) => NumCalls = 1

\* C11: the keyConfig handed to validateKeys has separator "." when the user
\* gave none and strict = true when the user gave none; a separator or a strict
\* the user gave (strict = false included), the patterns and the source globs
\* are passed through unchanged.
C11_KeyConfigDefaults ==
  keyConfig # NoConfig =>
    LET kv == config.keyValidation
    IN /\ "separator" \notin DOMAIN kv => keyConfig.separator = <<".">>
       /\ "strict" \notin DOMAIN kv => keyConfig.strict = TRUE
       /\ "separator" \in DOMAIN kv => keyConfig.separator = kv.separator
       /\ "strict" \in DOMAIN kv => keyConfig.strict = kv.strict
       /\ keyConfig.patterns = kv.patterns
       /\ keyConfig.sourceFiles = kv.sourceFiles

C11_Witness ==
  /\ keyConfig # NoConfig
  /\ "strict" \in DOMAIN config.keyValidation
  /\ config.keyValidation.strict = FALSE
  /\ "separator" \notin DOMAIN config.keyValidation
  /\ keyConfig.separator = <<".">>
  /\ keyConfig.strict = FALSE

\* C12: the find-all loop of extractKeysFromSource ends for every pattern and
\* every finite content, patterns that can match the empty string included.
\* lastIndex never moves back and exec depends on nothing else, so a loop that
\* ends finds each match from a lastIndex of its own: it makes no more matches
\* than content has characters.
C12_MatchLoopEnds ==
  scan.pc = "while" => scan.iter <= Len(scan.content)

\* -------------------------------------------------- reference for the flattener
\* values an object or array holds
Children(o) == {Heap[o].entries[i][2] : i \in 1..Len(Heap[o].entries)} \ {Prim}

\* objects and arrays reachable from o, o included
RECURSIVE ReachFrom(_, _)
ReachFrom(frontier, seen) ==
  IF frontier \subseteq seen THEN seen
  ELSE ReachFrom(UNION {Children(o) : o \in frontier}, seen \cup frontier)

Reachable(o) == ReachFrom({o}, {})

\* some object reachable from root can reach itself
Cyclic(root) ==
  \E o \in Reachable(root) : o \in ReachFrom(Children(o), {})

\* number of entries among the objects reachable from root that hold o
Holders(root, o) ==
  Cardinality(UNION {{<<h, i>> : i \in {j \in 1..Len(Heap[h].entries) :
                                            Heap[h].entries[j][2] = o}} :
                     h \in Reachable(root)})

\* the value is a tree: nothing in it is held twice or holds the root
TreeShaped(root) ==
  /\ Holders(root, root) = 0
  /\ \A o \in Reachable(root) \ {root} : Holders(root, o) = 1

\* The flattening with the visited set scoped to the current call chain: an
\* object is skipped only below itself.
RECURSIVE PerPathKeys(_, _, _, _)
PerPathKeys(obj, prefix, separator, chain) ==
  IF obj = Prim \/ obj \in chain THEN {}
  ELSE UNION {
    LET key == Heap[obj].entries[i][1]
        value == Heap[obj].entries[i][2]
        newKey == IF prefix # <<>> THEN prefix \o separator \o key ELSE key
    IN {newKey} \cup
       (IF value = Prim THEN {}
        ELSE IF Heap[value].isArray
          THEN UNION {PerPathKeys(Heap[value].entries[j][2], newKey, separator,
                                  chain \cup {obj}) :
                      j \in 1..Len(Heap[value].entries)}
          ELSE PerPathKeys(value, newKey, separator, chain \cup {obj}))
    : i \in 1..Len(Heap[obj].entries)}

\* C13: in one traversal an object reachable by two different non-cyclic paths
\* is flattened once per path; only an object that is being processed higher in
\* the current call chain is skipped.
C13_FlattenedOncePerPath ==
  flat.pc = "returned" =>
    flat.keys = PerPathKeys(flat.obj, flat.prefix, flat.separator, {})

\* The flattening with arrays transparent at every depth: an array adds no path
\* segment, its object elements are flattened under the path of the array.
RECURSIVE TransparentKeys(_, _, _)
TransparentKeys(obj, prefix, separator) ==
  IF obj = Prim THEN {}
  ELSE IF Heap[obj].isArray
    THEN UNION {TransparentKeys(Heap[obj].entries[j][2], prefix, separator) :
                j \in 1..Len(Heap[obj].entries)}
    ELSE UNION {
      LET key == Heap[obj].entries[i][1]
          newKey == IF prefix # <<>> THEN prefix \o separator \o key ELSE key
      IN {newKey} \cup TransparentKeys(Heap[obj].entries[i][2], newKey, separator)
      : i \in 1..Len(Heap[obj].entries)}

\* an array index is part of the key (no object key of the heap holds a digit)
HasIndex(key) == \E i \in 1..Len(key) : key[i] \in {"0", "1"}

\* C14: flattening never puts an array index into a key path: the object
\* elements of an array are flattened under the array's own path and their key
\* sets are united, also for an array directly inside an array and for a
\* document that is an array.
C14_NoArrayIndexInPath ==
  flat.pc = "returned" =>
    /\ \A key \in flat.keys : ~HasIndex(key)
    /\ TreeShaped(flat.obj) =>
         flat.keys = TransparentKeys(flat.obj, flat.prefix, flat.separator)

\* nested objects with only primitive leaves
PlainTree(root) ==
  /\ TreeShaped(root)
  /\ \A o \in Reachable(root) : ~Heap[o].isArray

NoEmptyKey(root) ==
  \A o \in Reachable(root) : \A i \in 1..Len(Heap[o].entries) :
    Heap[o].entries[i][1] # <<>>

\* the key paths from o to every node below it, leaves and objects
RECURSIVE Paths(_)
Paths(o) ==
  UNION {
    LET key == Heap[o].entries[i][1]
        value == Heap[o].entries[i][2]
    IN {<<key>>} \cup (IF value = Prim THEN {} ELSE {<<key>> \o p : p \in Paths(value)})
    : i \in 1..Len(Heap[o].entries)}

\* C18 as stated: for every document of nested objects with only primitive
\* leaves the flattened key set has exactly one entry per leaf and one per
\* intermediate object, each the separator-joined path of keys from the root.
C18_OneKeyPerNode_AsStated ==
  (flat.pc = "returned" /\ flat.prefix = <<>> /\ PlainTree(flat.obj)) =>
    /\ flat.keys = {join(path, flat.separator) : path \in Paths(flat.obj)}
    /\ Cardinality(flat.keys) = Cardinality(Paths(flat.obj))

\* C18: for every document of nested objects with only primitive leaves and no
\* empty key, the flattened key set is exactly the set of the separator-joined
\* key paths of its leaves and intermediate objects, none with a leading
\* separator.
C18_OneKeyPerNode ==
  (flat.pc = "returned" /\ flat.prefix = <<>> /\ PlainTree(flat.obj)
     /\ NoEmptyKey(flat.obj)) =>
    /\ flat.keys = {join(path, flat.separator) : path \in Paths(flat.obj)}
    /\ \A key \in flat.keys : ~StartsAt(key, flat.separator, 1)

C18_Witness ==
  /\ flat.pc = "returned"
  /\ flat.obj = 23
  /\ flat.prefix = <<>>
  /\ flat.separator = <<":", ":">>
  /\ flat.keys = {<<"a">>, <<"a", ":", ":", "b">>,
                  <<"a", ":", ":", "b", ":", ":", "c">>, <<"d">>}

\* C19: flattening a cyclic structure ends with a finite key set, the keys of
\* everything that is reached without going round a cycle.
C19_CyclicStructureFlattened ==
  (flat.pc = "returned" /\ Cyclic(flat.obj)) =>
    /\ IsFiniteSet(flat.keys)
    /\ flat.visited = Reachable(flat.obj)
    /\ \A key \in PerPathKeys(flat.obj, flat.prefix, flat.separator, {}) :
         key \in flat.keys
    /\ flat.keys \subseteq PerPathKeys(flat.obj, flat.prefix, flat.separator, {})

\* ------------------------------------------------ reference for the normalizer
\* t occurs in s
Contains(s, t) == \E i \in 1..(Len(s) + 1) : StartsAt(s, t, i)

Chars(s) == {s[i] : i \in 1..Len(s)}

\* C15 as stated: after normalization from a pattern separator that differs
\* from the default separator the key holds no occurrence of the pattern
\* separator, for all keys and all pairs of separators (the empty separator,
\* which occurs in every string, left aside).
C15_NoPatternSeparatorLeft_AsStated ==
  (/\ norm.pc = "returned"
   /\ norm.currentSeparator # norm.targetSeparator
   /\ norm.currentSeparator # <<>>) =>
    ~Contains(norm.out, norm.currentSeparator)

\* C15: after normalization from a pattern separator into a default separator
\* the key holds no occurrence of the pattern separator, for all keys and all
\* pairs of non-empty separators that have no character in common.
C15_NoPatternSeparatorLeft ==
  (/\ norm.pc = "returned"
   /\ norm.currentSeparator # <<>>
   /\ norm.targetSeparator # <<>>
   /\ Chars(norm.currentSeparator) \cap Chars(norm.targetSeparator) = {}) =>
    ~Contains(norm.out, norm.currentSeparator)

C15_Witness ==
  /\ norm.pc = "returned"
  /\ norm.key = <<":", ":", "a">>
  /\ norm.currentSeparator = <<":", ":">>
  /\ norm.targetSeparator = <<".">>
  /\ norm.out = <<".", "a">>

\* C16: normalizeKey returns the key unchanged whenever the two separators are
\* equal, and for every key that holds no occurrence of the from-separator.
C16_NormalizeIdentity ==
  norm.pc = "returned" =>
    /\ norm.currentSeparator = norm.targetSeparator => norm.out = norm.key
    /\ ~Contains(norm.key, norm.currentSeparator) => norm.out = norm.key

C16_Witness ==
  /\ norm.pc = "returned"
  /\ norm.currentSeparator # norm.targetSeparator
  /\ ~Contains(norm.key, norm.currentSeparator)
  /\ Contains(norm.key, norm.targetSeparator)
  /\ norm.targetSeparator # <<>>
  /\ norm.out = norm.key

\* ------------------------------------------------- reference for the extractor
\* position of the first ch after position i, 0 when there is none
FirstAfter(content, ch, i) ==
  LET later == {k \in (i + 1)..Len(content) : content[k] = ch}
  IN IF later = {} THEN 0 ELSE CHOOSE k \in later : \A j \in later : k <= j

\* where the non-overlapping matches of O([^C]*)C start: at an opener that has
\* a closer after it and lies in no earlier match
MatchStarts(regex, content) ==
  LET n == Len(content)
      IsStart[i \in 1..n] ==
        /\ content[i] = regex.open
        /\ FirstAfter(content, regex.close, i) # 0
        /\ \A j \in 1..(i - 1) :
             IsStart[j] => FirstAfter(content, regex.close, j) < i
  IN {i \in 1..n : IsStart[i]}

\* capture group 1 of every match
Captures(regex, content) ==
  {SubSeq(content, i + 1, FirstAfter(content, regex.close, i) - 1) :
     i \in MatchStarts(regex, content)}

\* C17 as stated: the keys extracted are exactly the set, over every pattern
\* and every non-overlapping match of it, of capture group 1 normalized from
\* the pattern's own separator (the default one when it has none) into the
\* default separator.
C17_ExtractedKeys_AsStated ==
  scan.pc = "returned" =>
    Range(scan.keys) =
      UNION {{normalizeKey(capture, patternSeparator(p, scan.defaultSeparator),
                           scan.defaultSeparator) :
                capture \in Captures(p.regex, scan.content)} :
             p \in Range(scan.patterns)}

\* C17: the keys extracted are exactly the set, over every pattern and every
\* non-overlapping match of it whose capture group 1 is neither absent nor
\* empty, of group 1 normalized from the pattern's own separator (the default
\* one when it has none) into the default separator; each pattern is applied
\* to the whole text.
C17_ExtractedKeys ==
  scan.pc = "returned" =>
    /\ NoDuplicates(scan.keys)
    /\ Range(scan.keys) =
         UNION {{normalizeKey(capture, patternSeparator(p, scan.defaultSeparator),
                              scan.defaultSeparator) :
                   capture \in Captures(p.regex, scan.content) \ {<<>>}} :
                p \in Range(scan.patterns)}

\* one text matched by two patterns gives a key from each
C17_Witness ==
  /\ scan.pc = "returned"
  /\ scan.content = <<"(", "a", "/", "a", ")">>
  /\ scan.patterns = <<Q1, P1>>
  /\ scan.keys = << <<"a", ".", "a">>, <<"a", "/", "a">> >>

\* ------------------------------------------------------- phases of validateKeys
SourceOps == {"sync", "syncThrew", "sourceRead", "sourceUnreadable",
              "sourceExtractError", "sourceThrew", "sourceLoops"}
JsonOps == {"jsonRead", "jsonFailed"}

\* the phases in their order; a failed run is Done with the error in raised
PhaseRank(phase) ==
  CASE phase = "Idle" -> 0
    [] phase = "ScanningSource" -> 1
    [] phase = "Looping" -> 1
    [] phase = "ScanningJson" -> 2
    [] phase = "Reconciling" -> 3
    [] phase = "Done" -> 4
    [] phase = "Threw" -> 4

\* the phase the last event of the current call belongs to
EventRank(op) ==
  IF op \in SourceOps THEN 1 ELSE IF op \in JsonOps THEN 2 ELSE 3

\* C20: every run of validateKeys goes through ScanningSource, ScanningJson,
\* Reconciling and Done/Failed in this order and never back: no JSON file is
\* read before the source scan is over, reconciliation comes only after every
\* JSON file was read and parsed, and every run ends with a returned result:
\* no run is held in a loop that does not end.
C20_PhaseOrder ==
  pc = "keys" =>
    /\ \A i, j \in 1..Len(CurrentCall) :
         i < j => EventRank(CurrentCall[i].op) <= EventRank(CurrentCall[j].op)
    /\ \A i \in 1..Len(CurrentCall) :
         EventRank(CurrentCall[i].op) <= PhaseRank(vkPc)
    /\ PhaseRank(vkPc) >= 2 =>
         /\ srcIdx > Len(keyConfig.sourceFiles) \/ raised # NoError
         /\ pending = <<>> \/ raised # NoError
    /\ "reconcile" \in Ops(CurrentCall) =>
         /\ "jsonFailed" \notin Ops(CurrentCall)
         /\ [i \in 1..Len(keyConfig.jsonFiles) |-> Ev("jsonRead", keyConfig.jsonFiles[i], "")]
              = SelectSeq(CurrentCall, LAMBDA e : e.op = "jsonRead")
    /\ vkPc = "Done" => result # NoResult
    /\ vkPc # "Looping"

\* C21: with key validation enabled every JSON file that extractJsonKeys parses
\* was accepted by validateJsonFile earlier in the same build.
C21_ParsedOnlyAfterAccepted ==
  \A k \in 1..Len(log) :
    (log[k].op \in {"jsonRead", "jsonFailed"} /\ disk[log[k].json] # "gone") =>
      \E i \in 1..(k - 1) : log[i].op = "accepted" /\ log[i].json = log[k].json

====
